---------------------------- MODULE Spec2Model ----------------------------
(***************************************************************************)
(* Model of the Notion content pipeline:                                   *)
(*   src/main.py              process_notion_content (inbound operation)   *)
(*   src/notion/notion_rag.py NotionRAG (orchestration)                    *)
(*   src/notion/api.py        NotionAPI (tree fetcher)                     *)
(*   src/notion/processor.py  NotionProcessor (tree renderer)              *)
(*                                                                         *)
(* Python dicts are functions with string domains (records): d.get(k, v)   *)
(* is Get(d, k, v) and "k in d" is k \in DOMAIN d.  dicts whose iteration  *)
(* order matters (page and database properties) are sequences of           *)
(* <<key, value>> items.                                                   *)
(*                                                                         *)
(* A Python str is a sequence of atoms.  An atom is a TLA+ string standing *)
(* for a run of characters; the characters the code searches for, "|" and  *)
(* "\n", are always atoms of their own, and no atom is empty, so that "" is*)
(* <<>>, count("|") counts atoms and split("\n") cuts at atoms.            *)
(***************************************************************************)
EXTENDS Integers, Sequences, FiniteSets, TLC

\* ------------------------------------------------------------------ text

NL == "\n"
BAR == "|"

\* dict.get(k, default)
Get(d, k, default) == IF k \in DOMAIN d THEN d[k] ELSE default

RECURSIVE Join(_, _)
\* sep.join(parts)
Join(sep, parts) ==
    IF Len(parts) = 0 THEN <<>>
    ELSE IF Len(parts) = 1 THEN parts[1]
    ELSE parts[1] \o sep \o Join(sep, Tail(parts))

RECURSIVE Split(_, _)
\* s.split(sep) for a one-atom separator: always at least one piece
Split(s, sep) ==
    IF \A i \in 1..Len(s) : s[i] # sep THEN <<s>>
    ELSE LET k == CHOOSE i \in 1..Len(s) :
                      s[i] = sep /\ \A j \in 1..(i - 1) : s[j] # sep
         IN  <<SubSeq(s, 1, k - 1)>> \o Split(SubSeq(s, k + 1, Len(s)), sep)

\* s.count(c) for a one-atom c
Count(s, c) == Cardinality({i \in 1..Len(s) : s[i] = c})

\* [x] * n
Repeat(x, n) == [i \in 1..n |-> x]

\* "\n".join([f"{prefix}{line}" for line in s.split("\n")])
IndentLines(s, prefix) ==
    LET lines == Split(s, NL)
    IN  Join(<<NL>>, [i \in 1..Len(lines) |-> prefix \o lines[i]])

\* the comprehension [x for x in xs if x], on strings
RECURSIVE NonEmpty(_)
NonEmpty(xs) ==
    IF Len(xs) = 0 THEN <<>>
    ELSE (IF Head(xs) # <<>> THEN <<Head(xs)>> ELSE <<>>) \o NonEmpty(Tail(xs))

\* " ".join([text_obj.get("plain_text", "") for text_obj in objs])
PlainText(objs) ==
    Join(<<" ">>, [i \in 1..Len(objs) |-> Get(objs[i], "plain_text", <<>>)])


\* ------------------------------------------------- renderer (processor.py)

\* Python truthiness of a dict-valued field; None is the empty dict here,
\* the code never tells the two apart.
EmptyDict == <<>>
Truthy(d) == DOMAIN d # {}

TextTypes ==
    {"paragraph", "heading_1", "heading_2", "heading_3",
     "bulleted_list_item", "numbered_list_item", "quote"}

\* every type _extract_text_from_block has a branch for
KnownTypes ==
    TextTypes \cup
    {"code", "image", "to_do", "toggle", "callout", "table", "table_row",
     "divider", "bookmark", "equation", "file", "column_list", "column",
     "synced_block", "table_of_contents", "embed", "link_preview",
     "link_to_page", "child_page", "child_database"}

\* the prefix of a text-bearing block
TextPrefix(block_type) ==
    CASE block_type = "heading_1" -> <<"# ">>
      [] block_type = "heading_2" -> <<"## ">>
      [] block_type = "heading_3" -> <<"### ">>
      [] block_type = "bulleted_list_item" -> <<"<bullet> ">>
      [] block_type = "numbered_list_item" -> <<"1. ">>
      [] block_type = "quote" -> <<"> ">>
      [] OTHER -> <<>>

\* the row text of a table_row payload
TableRowText(block_content) ==
    LET cells == Get(block_content, "cells", <<>>)
        row_content ==
            [i \in 1..Len(cells) |->
                IF cells[i] # <<>> THEN PlainText(cells[i]) ELSE <<>>]
    IN  IF row_content # <<>>
        THEN <<BAR, " ">> \o Join(<<" ", BAR, " ">>, row_content) \o <<" ", BAR>>
        ELSE <<BAR, " Empty row ", BAR>>

\* mutant: the separator counts every "|" of the header row as a cell
TableDividerPerBar(header_row) ==
    <<BAR, " ">>
        \o Join(<<" ", BAR, " ">>, Repeat(<<"---">>, Count(header_row, BAR)))
        \o <<" ", BAR>>

\* the separator row under a header row
TableDivider(header_row) ==
    LET cell_count == Count(header_row, BAR) - 1
    IN  <<BAR, " ">> \o Join(<<" ", BAR, " ">>, Repeat(<<"---">>, cell_count))
            \o <<" ", BAR>>

\* the lines of a table's rows, given the rendered rows
TableLines(block_content, rows) ==
    LET has_header == Get(block_content, "has_column_header", FALSE)
    IN  IF has_header /\ Len(rows) > 0
        THEN <<rows[1]>> \o
             (IF Len(rows) > 1
              THEN <<TableDivider(rows[1])>> \o Tail(rows)
              ELSE <<>>)
        ELSE rows

\* mutant: a title without text is listed too
ListTitleUnchecked(props) ==
    LET titled == {i \in 1..Len(props) : Get(props[i][2], "type", "") = "title"}
        first == CHOOSE i \in titled : \A j \in titled : i <= j
    IN  IF titled = {} THEN <<>>
        ELSE <<PlainText(Get(props[first][2], "title", <<>>))>>

RECURSIVE ListTitle(_)
\* the title a child page contributes to the bulleted list: the first
\* title-type property with a non-empty text (0 or 1 titles)
ListTitle(props) ==
    IF Len(props) = 0 THEN <<>>
    ELSE LET prop_value == Head(props)[2]
             title_text == PlainText(Get(prop_value, "title", <<>>))
         IN  IF Get(prop_value, "type", "") = "title" /\ title_text # <<>>
             THEN <<title_text>>
             ELSE ListTitle(Tail(props))

RECURSIVE PageTitle(_)
\* the text of the first title-type property, "" when there is none
PageTitle(props) ==
    IF Len(props) = 0 THEN <<>>
    ELSE LET prop_value == Head(props)[2]
         IN  IF Get(prop_value, "type", "") = "title"
             THEN PlainText(Get(prop_value, "title", <<>>))
             ELSE PageTitle(Tail(props))

RECURSIVE FlatAll(_)
\* the concatenation of a sequence of sequences
FlatAll(xs) == IF Len(xs) = 0 THEN <<>> ELSE Head(xs) \o FlatAll(Tail(xs))

\* the header lines of a child_database: title, schema columns
DatabaseHeader(block, block_content) ==
    LET base == <<"Child database: ">> \o Get(block_content, "title", <<>>)
    IN  IF "database_info" \in DOMAIN block
        THEN LET database_info == block["database_info"]
                 db_title == Get(database_info, "title", <<>>)
                 properties == Get(database_info, "properties", <<>>)
                 property_names ==
                     [i \in 1..Len(properties) |-> <<properties[i][1]>>]
                 titled == IF db_title # <<>>
                           THEN <<"Database: ">> \o PlainText(db_title)
                           ELSE base
             IN  IF property_names # <<>>
                 THEN titled \o <<NL, "Columns: ">>
                          \o Join(<<", ">>, property_names)
                 ELSE titled
        ELSE base

RECURSIVE ExtractText(_)

\* the "--- Page i: title ---" section of one child page with page_content
DetailedPage(page, i) ==
    LET title == PageTitle(Get(page, "properties", <<>>))
        content == Get(page, "page_content", <<>>)
        texts == [k \in 1..Len(content) |-> ExtractText(content[k])]
        parts == [k \in 1..Len(content) |->
                    IF texts[k] # <<>>
                    THEN IndentLines(texts[k], <<"    ">>) \o <<NL>>
                    ELSE <<>>]
    IN  <<NL, "--- Page ", ToString(i), ": ">> \o title \o <<" ---", NL>>
            \o FlatAll(parts)

\* the own text of a child_database block
ChildDatabaseText(block, block_content) ==
    LET header == DatabaseHeader(block, block_content)
        children == Get(block, "children", <<>>)
    IN  IF "children" \in DOMAIN block /\ children # <<>>
        THEN LET page_titles ==
                     FlatAll([i \in 1..Len(children) |->
                         ListTitle(Get(children[i], "properties", <<>>))])
                 withCount == header \o
                     <<NL, "Contains ", ToString(Len(children)), " pages:">>
                 withTitles ==
                     IF page_titles # <<>>
                     THEN withCount \o <<NL, "- ">>
                              \o Join(<<NL, "- ">>, page_titles)
                     ELSE withCount
                 detailed_pages ==
                     FlatAll([i \in 1..Len(children) |->
                         IF "page_content" \in DOMAIN children[i]
                         THEN <<DetailedPage(children[i], i)>>
                         ELSE <<>>])
             IN  IF detailed_pages # <<>>
                 THEN withTitles \o <<NL, NL, "Detailed page content:", NL>>
                          \o Join(<<NL>>, detailed_pages)
                 ELSE withTitles
        ELSE header

\* mutant: the fallback leaves the brackets out
UnknownTextBare(block_type) == <<block_type>>

\* the fallback for a type no branch handles
UnknownText(block_type) == <<"[", block_type, "]">>

\* the fragment of the block itself, before its children are composed in
OwnText(block, block_type, block_content) ==
    CASE block_type \in TextTypes ->
            TextPrefix(block_type)
                \o PlainText(Get(block_content, "rich_text", <<>>))
      [] block_type = "code" ->
            <<"Code (">> \o Get(block_content, "language", <<"unknown">>)
                \o <<"): ">> \o PlainText(Get(block_content, "rich_text", <<>>))
      [] block_type = "image" ->
            <<"Image: ">> \o PlainText(Get(block_content, "caption", <<>>))
      [] block_type = "to_do" ->
            (IF Get(block_content, "checked", FALSE)
             THEN <<"<checked>">> ELSE <<"<unchecked>">>)
                \o <<" ">> \o PlainText(Get(block_content, "rich_text", <<>>))
      [] block_type = "toggle" ->
            <<"Toggle: ">> \o PlainText(Get(block_content, "rich_text", <<>>))
      [] block_type = "callout" ->
            <<"Callout ">>
                \o Get(Get(block_content, "icon", EmptyDict), "emoji", <<>>)
                \o <<": ">> \o PlainText(Get(block_content, "rich_text", <<>>))
      [] block_type = "table" -> <<"Table:">>
      [] block_type = "table_row" -> TableRowText(block_content)
      [] block_type = "divider" -> <<"---">>
      [] block_type = "bookmark" ->
            <<"Bookmark: ">> \o Get(block_content, "url", <<>>) \o <<" - ">>
                \o PlainText(Get(block_content, "caption", <<>>))
      [] block_type = "equation" ->
            <<"Equation: ">> \o Get(block_content, "expression", <<>>)
      [] block_type = "file" ->
            <<"File: ">> \o PlainText(Get(block_content, "caption", <<>>))
      [] block_type = "column_list" -> <<"Column List:">>
      [] block_type = "column" -> <<"Column:">>
      [] block_type = "synced_block" ->
            LET synced_from == Get(block_content, "synced_from", EmptyDict)
            IN  IF Truthy(synced_from)
                THEN <<"Synced content (from block ",
                       Get(synced_from, "block_id", "None"), "):">>
                ELSE <<"Synced content (original):">>
      [] block_type = "table_of_contents" -> <<"Table of Contents">>
      [] block_type = "embed" ->
            <<"Embedded content: ">> \o Get(block_content, "url", <<>>)
      [] block_type = "link_preview" ->
            <<"Link preview: ">> \o Get(block_content, "url", <<>>)
      [] block_type = "link_to_page" ->
            IF "page_id" \in DOMAIN block_content
            THEN <<"Link to page: ", block_content["page_id"]>>
            ELSE IF "database_id" \in DOMAIN block_content
            THEN <<"Link to database: ", block_content["database_id"]>>
            ELSE <<>>
      [] block_type = "child_page" ->
            <<"Child page: ">> \o Get(block_content, "title", <<>>)
      [] block_type = "child_database" ->
            ChildDatabaseText(block, block_content)
      [] OTHER -> UnknownText(block_type)

\* the rendered children that take part in the composition, by parent type
ChildTexts(block, block_type, block_content) ==
    LET children == block["children"]
        ofType(t) ==
            FlatAll([i \in 1..Len(children) |->
                IF Get(children[i], "type", "") = t
                THEN <<ExtractText(children[i])>> ELSE <<>>])
    IN  CASE block_type = "column_list" ->
                LET cols == ofType("column")
                IN  FlatAll([i \in 1..Len(cols) |->
                        IF cols[i] # <<>> /\ cols[i] # <<"Column:">>
                        THEN <<cols[i]>> ELSE <<>>])
          [] block_type = "table" ->
                LET rows == NonEmpty(ofType("table_row"))
                IN  IF rows # <<>> THEN TableLines(block_content, rows)
                    ELSE <<>>
          [] OTHER ->
                NonEmpty([i \in 1..Len(children) |-> ExtractText(children[i])])

\* mutant: the bodies of columns and column lists are not indented
ComposeFlatColumns(block_type, text, child_texts) ==
    IF child_texts = <<>> THEN text
    ELSE LET child_text == Join(<<NL>>, child_texts)
         IN  IF block_type \in {"column_list", "column"} THEN child_text
             ELSE IF block_type = "table"
             THEN (IF text # <<>> THEN text \o <<NL>> \o child_text
                   ELSE child_text)
             ELSE IF text # <<>>
             THEN text \o <<NL>> \o IndentLines(child_text, <<"  ">>)
             ELSE IndentLines(child_text, <<"  ">>)

\* text and children composed
Compose(block_type, text, child_texts) ==
    IF child_texts = <<>> THEN text
    ELSE LET child_text == Join(<<NL>>, child_texts)
             indented == IndentLines(child_text, <<"  ">>)
         IN  IF block_type = "table"
             THEN (IF text # <<>> THEN text \o <<NL>> \o child_text
                   ELSE child_text)
             ELSE IF block_type \in {"column_list", "column"} THEN indented
             ELSE IF text # <<>> THEN text \o <<NL>> \o indented
             ELSE indented

\* NotionProcessor._extract_text_from_block
ExtractText(block) ==
    LET block_type == Get(block, "type", "")
    IN  IF block_type = "" \/ block_type \notin DOMAIN block THEN <<>>
        ELSE LET block_content == block[block_type]
                 text == OwnText(block, block_type, block_content)
             IN  IF "children" \in DOMAIN block /\ block["children"] # <<>>
                 THEN Compose(block_type, text,
                              ChildTexts(block, block_type, block_content))
                 ELSE text


\* NotionProcessor.process_page_to_document / process_direct_page_to_document:
\* the rendered body, the top-level fragments joined by newlines
RenderContent(page_content) ==
    Join(<<NL>>,
         NonEmpty([i \in 1..Len(page_content) |-> ExtractText(page_content[i])]))

\* mutant: the properties are left out of the metadata
PropertyMetadataSkipped(props, metadata) == metadata

\* the metadata entries process_page_to_document adds for the properties,
\* applied in property order (a later entry overwrites an earlier one)
RECURSIVE PropertyMetadata(_, _)
PropertyMetadata(props, metadata) ==
    IF Len(props) = 0 THEN metadata
    ELSE LET prop_name == Head(props)[1]
             prop_value == Head(props)[2]
             prop_type == Get(prop_value, "type", "")
             set(v) == (prop_name :> v) @@ metadata
             next ==
                 CASE prop_type = "rich_text" ->
                        set(PlainText(Get(prop_value, "rich_text", <<>>)))
                   [] prop_type = "number" -> set(Get(prop_value, "number", 0))
                   [] prop_type = "select" ->
                        LET select_obj == Get(prop_value, "select", EmptyDict)
                        IN  IF Truthy(select_obj)
                            THEN set(Get(select_obj, "name", <<>>))
                            ELSE metadata
                   [] prop_type = "multi_select" ->
                        LET objs == Get(prop_value, "multi_select", <<>>)
                        IN  IF objs # <<>>
                            THEN set([i \in 1..Len(objs) |->
                                        Get(objs[i], "name", <<>>)])
                            ELSE metadata
                   [] prop_type = "date" ->
                        LET date_obj == Get(prop_value, "date", EmptyDict)
                        IN  IF Truthy(date_obj)
                            THEN set(Get(date_obj, "start", <<>>))
                            ELSE metadata
                   [] prop_type = "checkbox" ->
                        set(Get(prop_value, "checkbox", FALSE))
                   [] prop_type = "url" -> set(Get(prop_value, "url", <<>>))
                   [] prop_type = "email" -> set(Get(prop_value, "email", <<>>))
                   [] prop_type = "phone_number" ->
                        set(Get(prop_value, "phone_number", <<>>))
                   [] OTHER -> metadata
         IN  PropertyMetadata(Tail(props), next)

\* NotionProcessor.process_page_to_document
ProcessPageToDocument(page, page_content) ==
    LET properties == Get(page, "properties", <<>>)
        title == PageTitle(properties)
        metadata == [page_id |-> Get(page, "id", ""),
                     title |-> title,
                     url |-> Get(page, "url", <<>>),
                     created_time |-> Get(page, "created_time", <<>>),
                     last_edited_time |-> Get(page, "last_edited_time", <<>>)]
    IN  [page_content |-> title \o <<NL, NL>> \o RenderContent(page_content),
         metadata |-> PropertyMetadata(properties, metadata)]

\* NotionProcessor.process_direct_page_to_document (page_info is non-empty:
\* the caller raised before the call otherwise)
ProcessDirectPageToDocument(page_info, page_content) ==
    LET page_title == IF "properties" \in DOMAIN page_info
                      THEN PageTitle(page_info["properties"])
                      ELSE <<>>
        has_databases ==
            \E i \in 1..Len(page_content) :
                Get(page_content[i], "type", "") = "child_database"
    IN  [page_content |->
            page_title \o <<NL, NL>> \o RenderContent(page_content),
         metadata |-> [page_id |-> Get(page_info, "id", ""),
                       title |-> page_title,
                       url |-> Get(page_info, "url", <<>>),
                       created_time |-> Get(page_info, "created_time", <<>>),
                       last_edited_time |->
                           Get(page_info, "last_edited_time", <<>>),
                       has_database_content |-> has_databases]]


\* ------------------------------------------- the remote store (Notion API)
\* What the four remote operations answer is the input of the program.  A
\* store holds the pages (GET /pages/{id}), the children listings
\* (GET /blocks/{id}/children, a sequence of listing pages) and the databases
\* (GET /databases/{id}, POST /databases/{id}/query, a sequence of listing
\* pages).  An id the store does not hold answers with a non-200 status.

Block(id, type, has_children, payload) ==
    (type :> payload) @@
    [object |-> "block", id |-> id, type |-> type, has_children |-> has_children]

RichText(t) == [rich_text |-> <<[plain_text |-> <<t>>]>>]
Para(id, t) == Block(id, "paragraph", FALSE, RichText(t))
Row(id, a, b) ==
    Block(id, "table_row", FALSE,
          [cells |-> <<<<[plain_text |-> <<a>>]>>, <<[plain_text |-> <<b>>]>>>>])
SyncedRef(id, original) ==
    Block(id, "synced_block", TRUE, [synced_from |-> [block_id |-> original]])
SyncedOriginal(id) ==
    Block(id, "synced_block", TRUE, [synced_from |-> EmptyDict])

Page(id, title) ==
    [object |-> "page", id |-> id, url |-> <<"https://www.notion.so/", id>>,
     created_time |-> <<"2024-01-01">>, last_edited_time |-> <<"2024-01-02">>,
     properties |->
        << <<"Name", [type |-> "title", title |-> <<[plain_text |-> <<title>>]>>]>>,
           <<"Status", [type |-> "select", select |-> [name |-> <<"Open">>]]>>,
           <<"Notes", [type |-> "rich_text", rich_text |-> <<>>]>> >>]

\* a document of three listing pages: nesting, a table, an unknown type
StoreDoc ==
    [pages |-> [P1 |-> Page("P1", "Doc")],
     children |->
        [P1 |-> << <<Para("p1a", "intro"),
                     Block("g1", "toggle", TRUE, RichText("more"))>>,
                   <<Block("t1", "table", TRUE,
                           [table_width |-> 2, has_column_header |-> TRUE])>>,
                   <<Block("u1", "unsupported_widget", FALSE, EmptyDict)>> >>,
         g1 |-> << <<Para("g1a", "inner")>> >>,
         t1 |-> << <<Row("r1", "A", "B")>>, <<Row("r2", "1", "2")>> >>],
     databases |->
        [D1 |-> [info |-> [title |-> <<[plain_text |-> <<"Docs">>]>>,
                           properties |-> << <<"Name", [type |-> "title"]>> >>],
                 pages |-> << <<Page("P1", "Doc")>> >>]]]

\* synced blocks: a reference cycle (a block under A references B, a block
\* under B references A), an original and a reference to it
StoreSync ==
    [pages |-> [A |-> Page("A", "Sync")],
     children |->
        [A |-> << <<SyncedRef("sa", "B"), SyncedOriginal("O"),
                    SyncedRef("so", "O")>> >>,
         B |-> << <<SyncedRef("sb", "A"), Para("b1", "shared")>> >>,
         O |-> << <<Para("o1", "original")>> >>],
     databases |-> EmptyDict]

\* a page with an embedded database whose listing has two listing pages and
\* names the embedding page itself
StoreDb ==
    [pages |-> [P3 |-> Page("P3", "Board")],
     children |->
        [P3 |-> << <<Block("DB", "child_database", FALSE,
                           [title |-> <<"Tasks">>]),
                     Para("p3a", "after")>> >>,
         Pg1 |-> << <<Para("k1", "task one")>> >>,
         Pg2 |-> << <<Para("k2", "task two")>> >>],
     databases |->
        [DB |-> [info |-> [title |-> <<[plain_text |-> <<"Tasks">>]>>,
                           properties |-> << <<"Status", [type |-> "select"]>>,
                                             <<"Name", [type |-> "title"]>> >>],
                 pages |-> << <<Page("Pg1", "Task 1")>>,
                              <<Page("P3", "Board"), Page("Pg2", "Task 2")>> >>]]]

\* a column layout: a column with children and one without; a database
\* whose listing is empty
StoreCols ==
    [pages |-> [P4 |-> Page("P4", "Layout")],
     children |->
        [P4 |-> << <<Block("CL", "column_list", TRUE, EmptyDict)>> >>,
         CL |-> << <<Block("C1", "column", TRUE, EmptyDict),
                     Block("C2", "column", FALSE, EmptyDict)>> >>,
         C1 |-> << <<Para("c1a", "left")>> >>],
     databases |->
        [E |-> [info |-> [title |-> <<>>, properties |-> <<>>],
                pages |-> << <<>> >>]]]

\* an embedded database whose block reports has_children = true and whose
\* id also answers the children listing
StoreDbKids ==
    [pages |-> [P5 |-> Page("P5", "Inline")],
     children |->
        [P5 |-> << <<Block("DK", "child_database", TRUE,
                           [title |-> <<"Rows">>])>> >>,
         DK |-> << <<Para("dk1", "stray")>> >>,
         Pk1 |-> << <<Para("k3", "row one")>> >>],
     databases |->
        [DK |-> [info |-> [title |-> <<[plain_text |-> <<"Rows">>]>>,
                           properties |-> << <<"Name", [type |-> "title"]>> >>],
                 pages |-> << <<Page("Pk1", "Row 1")>> >>]]]

\* a synced original listed between two references to it
StoreRefs ==
    [pages |-> [R |-> Page("R", "Refs")],
     children |->
        [R |-> << <<SyncedRef("rq", "Q"), SyncedOriginal("Q"),
                    SyncedRef("rq2", "Q")>> >>,
         Q |-> << <<Para("q1", "synced")>> >>],
     databases |-> EmptyDict]

Stores ==
    [doc |-> StoreDoc, sync |-> StoreSync, db |-> StoreDb, cols |-> StoreCols,
     dbkids |-> StoreDbKids, refs |-> StoreRefs]

\* the ids a request may name against a store: its pages and databases, and
\* one id the store does not hold
BadId == "bad"
PageIdsOf(name) == DOMAIN Stores[name].pages \cup {BadId}
DatabaseIdsOf(name) == DOMAIN Stores[name].databases \cup {BadId}

\* a paginated listing answers the listing page the cursor names (the first
\* one without a cursor) with has_more and next_cursor
ListingAnswer(listing, cursor) ==
    LET p == IF cursor = 0 THEN 1 ELSE cursor
    IN  [results |-> listing[p],
         has_more |-> p < Len(listing),
         next_cursor |-> IF p < Len(listing) THEN p + 1 ELSE 0]


\* ------------------------------------------------------------ the program

\* bounds of the model
MaxPageIds == 2        \* longest page_ids list of a request
MaxDatabaseIds == 1    \* longest database_ids list of a request
MaxFailures == 1       \* requests on ids the store holds that still fail
MaxDepth == 8          \* deepest call stack explored

VARIABLES
    store,          \* the name of the remote store (input)
    request,        \* NotionContentRequest: notion_api_key, database_ids, page_ids
    env_api_key,    \* os.getenv("NOTION_API_KEY"), "" when unset
    phase,          \* "start", "running" (inside index_notion_content), "done"
    notion_api_key, \* NotionRAG.notion_api_key
    stack,          \* the call stack: index_notion_content at the bottom,
                    \* get_page_content and fetch_database_pages frames above
    visited,        \* the visited_blocks set of the root fetch in progress
    all_documents,  \* index_notion_content's all_documents
    response,       \* the HTTP answer: status 0 while there is none
    failures,       \* failures injected so far
    item,           \* the requested root being processed: <<list, index>>
    log,            \* the requests issued: [op, id, item]
    walks,          \* per id, the children walks started in this root fetch
    returned,       \* per id, what its walk returned in this root fetch
    failedAt,       \* per id, the listing page whose request failed
    failedItems,    \* the indices of page_ids whose lookup failed
    rblock, rout, rdone   \* renderer harness: input block, output, done

vars == <<store, request, env_api_key, phase, notion_api_key, stack, visited,
          all_documents, response, failures, item, log, walks, returned,
          failedAt, failedItems, rblock, rout, rdone>>

pipeVars == <<store, request, env_api_key, phase, notion_api_key, stack,
              visited, all_documents, response, failures, item, log, walks,
              returned, failedAt, failedItems>>

renderVars == <<rblock, rout, rdone>>

\* the sequences over S of length at most n
RECURSIVE SeqsUpTo(_, _)
SeqsUpTo(S, n) ==
    IF n = 0 THEN {<<>>}
    ELSE LET shorter == SeqsUpTo(S, n - 1)
         IN  shorter \cup {Append(q, x) : q \in shorter, x \in S}

NoResponse == [status |-> 0, text |-> <<>>]
NoItem == <<"none", 0>>
NoBlock == EmptyDict

Frame(fn, pc, id) ==
    [fn |-> fn, pc |-> pc, id |-> id, blocks |-> <<>>, i |-> 1, k |-> 1,
     cursor |-> 0, pages |-> <<>>, info |-> EmptyDict]

Top == stack[Len(stack)]
Below == SubSeq(stack, 1, Len(stack) - 1)

\* d[k] = v
With(d, k, v) == (k :> v) @@ d

\* if "children" not in block: block["children"] = []
\* block["children"].extend(extra)
AttachChildren(block, extra) ==
    With(block, "children", Get(block, "children", <<>>) \o extra)

\* if "page_content" not in page: page["page_content"] = []
\* page["page_content"].extend(extra)
AttachPageContent(page, extra) ==
    With(page, "page_content", Get(page, "page_content", <<>>) \o extra)

\* mutant: the guard at the head of get_page_content is missing
NeverVisited(block_id, visited_blocks) == FALSE

\* the guard at the head of get_page_content: a visited id returns []
AlreadyVisited(block_id, visited_blocks) == block_id \in visited_blocks

\* first loop of get_page_content: the blocks expanded as databases
IsDatabase(block) ==
    Get(block, "type", "") = "child_database" /\ Get(block, "id", "") # ""

IsSyncedReference(block) ==
    /\ Get(block, "type", "") = "synced_block"
    /\ Truthy(Get(Get(block, "synced_block", EmptyDict), "synced_from", EmptyDict))

\* mutant: a reference is fetched under its own id, like any other block
FetchTargetOwn(block) == block["id"]

\* second loop of get_page_content: the id whose children are fetched for a
\* block with has_children ("" when the branch fetches nothing)
FetchTarget(block) ==
    IF IsSyncedReference(block)
    THEN Get(block["synced_block"]["synced_from"], "block_id", "")
    ELSE block["id"]

\* the children fetched for blocks[i] are attached; a column_list goes on to
\* its columns, any other block to the next block
AfterChild(f, result) ==
    LET block == AttachChildren(f.blocks[f.i], result)
    IN  IF Get(block, "type", "") = "column_list"
        THEN [f EXCEPT !.blocks[f.i] = block, !.pc = "columns", !.k = 1]
        ELSE [f EXCEPT !.blocks[f.i] = block, !.i = @ + 1]

\* the children fetched for column k of blocks[i] are attached
AfterColumn(f, result) ==
    LET cols == f.blocks[f.i]["children"]
        col == AttachChildren(cols[f.k], result)
    IN  [f EXCEPT !.blocks[f.i] =
                      With(@, "children", [cols EXCEPT ![f.k] = col]),
                  !.k = @ + 1]

\* page k of the database listing is appended to the children of blocks[i]
AppendDatabasePage(f) ==
    [f EXCEPT !.blocks[f.i] = AttachChildren(@, <<f.pages[f.k]>>)]

\* mutant: the content fetched for a database page is not attached
AfterDatabasePageDropped(f, result) == [f EXCEPT !.k = @ + 1]

\* the content fetched for the page appended last is attached to it
AfterDatabasePage(f, result) ==
    LET kids == f.blocks[f.i]["children"]
        page == AttachPageContent(kids[Len(kids)], result)
    IN  [f EXCEPT !.blocks[f.i] =
                      With(@, "children", [kids EXCEPT ![Len(kids)] = page]),
                  !.k = @ + 1]

\* mutant: get_page_content returns right after its pagination loop
SettleNothing(f, visited_blocks) == [f EXCEPT !.pc = "return"]

RECURSIVE Settle(_, _)
\* get_page_content run forward from its position to the next request, call
\* of a walk or return: the loop iterations that fetch nothing, and the
\* calls the visited guard answers with [] at once
Settle(f, visited_blocks) ==
    CASE f.pc = "databases" ->
            IF f.i > Len(f.blocks)
            THEN Settle([f EXCEPT !.pc = "children", !.i = 1], visited_blocks)
            ELSE IF IsDatabase(f.blocks[f.i]) THEN f
            ELSE Settle([f EXCEPT !.i = @ + 1], visited_blocks)
      [] f.pc = "db_pages" ->
            IF f.k > Len(f.pages)
            THEN Settle([f EXCEPT !.pc = "databases", !.i = @ + 1, !.k = 1,
                                  !.pages = <<>>], visited_blocks)
            ELSE LET page_id == Get(f.pages[f.k], "id", "")
                 IN  IF page_id # "" /\ page_id \notin visited_blocks THEN f
                     ELSE Settle([AppendDatabasePage(f) EXCEPT !.k = @ + 1],
                                 visited_blocks)
      [] f.pc = "children" ->
            IF f.i > Len(f.blocks) THEN [f EXCEPT !.pc = "return"]
            ELSE LET block == f.blocks[f.i]
                 IN  IF ~Get(block, "has_children", FALSE)
                     THEN Settle([f EXCEPT !.i = @ + 1], visited_blocks)
                     ELSE IF IsSyncedReference(block)
                     THEN IF /\ FetchTarget(block) # ""
                             /\ FetchTarget(block) \notin visited_blocks
                          THEN f
                          ELSE Settle([f EXCEPT !.i = @ + 1], visited_blocks)
                     ELSE IF AlreadyVisited(FetchTarget(block), visited_blocks)
                     THEN Settle(AfterChild(f, <<>>), visited_blocks)
                     ELSE f
      [] f.pc = "columns" ->
            LET cols == f.blocks[f.i]["children"]
            IN  IF f.k > Len(cols)
                THEN Settle([f EXCEPT !.pc = "children", !.i = @ + 1, !.k = 1],
                            visited_blocks)
                ELSE IF /\ Get(cols[f.k], "type", "") = "column"
                        /\ Get(cols[f.k], "has_children", FALSE)
                THEN IF AlreadyVisited(cols[f.k]["id"], visited_blocks)
                     THEN Settle(AfterColumn(f, <<>>), visited_blocks)
                     ELSE f
                ELSE Settle([f EXCEPT !.k = @ + 1], visited_blocks)
      [] OTHER -> f

\* the id of the walk a settled get_page_content frame is about to call
PendingCall(f) ==
    CASE f.pc = "db_pages" -> f.pages[f.k]["id"]
      [] f.pc = "children" -> FetchTarget(f.blocks[f.i])
      [] f.pc = "columns" -> f.blocks[f.i]["children"][f.k]["id"]

RECURSIVE SettleIndex(_, _)
\* index_notion_content run forward to its next call or to its end
SettleIndex(f, req) ==
    CASE f.pc = "databases" /\ f.i > Len(req.database_ids) ->
            SettleIndex([f EXCEPT !.pc = "pages", !.i = 1], req)
      [] f.pc = "db_pages" /\ f.k > Len(f.pages) ->
            SettleIndex([f EXCEPT !.pc = "databases", !.i = @ + 1, !.k = 1,
                                  !.pages = <<>>], req)
      [] f.pc = "pages" /\ f.i > Len(req.page_ids) -> [f EXCEPT !.pc = "finish"]
      [] OTHER -> f


\* ---------------------------------------------------------------- requests

\* the answers a request may get: success only for an id the store holds,
\* failure for an id it does not hold or, while the budget lasts, for any id
Answers(known) ==
    {ok \in BOOLEAN : (ok => known) /\ (~ok => (~known \/ failures < MaxFailures))}

Injected(ok, known) == IF ~ok /\ known THEN failures + 1 ELSE failures

Logged(op, id) == log \cup {[op |-> op, id |-> id, item |-> item]}

\* mutant: a missing credential is not refused, the header is built from None
CredentialUnchecked(req, env) ==
    IF req.notion_api_key # "" THEN req.notion_api_key
    ELSE IF env # "" THEN env ELSE "None"

\* NotionRAG.__init__: the credential of the request, else of the environment
Credential(req, env) ==
    IF req.notion_api_key # "" THEN req.notion_api_key ELSE env

\* mutant: the empty page_info is not checked before the content fetch
LookupNeverRaises(page_info) == FALSE

\* process_direct_page_to_document: "if not page_info: raise ValueError"
LookupRaises(page_info) == ~Truthy(page_info)

\* mutant: the loop over page_ids has no try/except
CaughtNothing(exception) == FALSE

\* index_notion_content: the try/except around each requested page id
\* catches what process_direct_page_to_document raises
CaughtPerPage(exception) == exception \in {"ValueError", "Exception"}

\* process_notion_content: the exception handlers
ErrorResponse(exception, message) ==
    IF exception = "ValueError"
    THEN [status |-> 400, text |-> message]
    ELSE [status |-> 500, text |-> <<"An error occurred: ">> \o message]

\* mutant: the None that index_notion_content returns is joined unchecked
CombinedResponseUnchecked(content_list) ==
    IF content_list # <<>>
    THEN [status |-> 200, text |-> Join(<<NL, NL>>, content_list)]
    ELSE ErrorResponse("TypeError", <<"can only join an iterable">>)

\* process_notion_content: what index_notion_content returned, as a response
CombinedResponse(content_list) ==
    [status |-> 200,
     text |-> IF content_list # <<>> THEN Join(<<NL, NL>>, content_list)
              ELSE <<"No content found or processed.">>]

\* index_notion_content's return value; None is the empty list, the caller
\* only tests its truth
ContentList(documents) ==
    IF documents = <<>> THEN <<>>
    ELSE [n \in 1..Len(documents) |-> documents[n].page_content]

\* mutant: each answered listing page replaces the accumulated blocks
ReplaceBlocks(blocks, results) == results

\* get_page_content's pagination loop: blocks.extend(results)
ExtendBlocks(blocks, results) == blocks \o results

\* mutant: a failed request discards what was accumulated
DroppedOnFailure(blocks) == <<>>

\* get_page_content's pagination loop: the break on a non-200 answer leaves
\* the loop with the blocks accumulated so far
KeptOnFailure(blocks) == blocks

\* fetch_database_pages' pagination loop: pages.extend(results)
ExtendPages(pages, results) == pages \o results

\* mutant: the id is never added to the visited set
MarkNothing(visited_blocks, block_id) == visited_blocks

\* visited_blocks.add(block_id)
Mark(visited_blocks, block_id) == visited_blocks \cup {block_id}

\* a root fetch: get_page_content(page_id, set())
RootCall(below, page_id) ==
    /\ stack' = below \o <<Frame("gpc", "list", page_id)>>
    /\ visited' = Mark({}, page_id)
    /\ walks' = (page_id :> 1)
    /\ returned' = EmptyDict
    /\ failedAt' = EmptyDict

\* main.py process_notion_content, up to the construction of NotionRAG
Construct ==
    /\ phase = "start"
    /\ LET key == Credential(request, env_api_key)
       IN  IF key = ""
           THEN /\ response' = ErrorResponse("ValueError",
                     <<"Notion API key is required. Set NOTION_API_KEY in .env file.">>)
                /\ phase' = "done"
                /\ UNCHANGED <<notion_api_key, stack>>
           ELSE /\ notion_api_key' = key
                /\ phase' = "running"
                /\ stack' = <<SettleIndex(Frame("index", "databases", ""), request)>>
                /\ UNCHANGED response
    /\ UNCHANGED <<store, request, env_api_key, visited, all_documents,
                   failures, item, log, walks, returned, failedAt, failedItems>>
    /\ UNCHANGED renderVars

\* index_notion_content: the call of fetch_database_pages for database i
StartDatabase ==
    /\ phase = "running"
    /\ Top.fn = "index" /\ Top.pc = "databases"
    /\ stack' = stack \o <<Frame("fdp", "query", request.database_ids[Top.i])>>
    /\ item' = <<"database", Top.i>>
    /\ UNCHANGED <<store, request, env_api_key, phase, notion_api_key, visited,
                   all_documents, response, failures, log, walks, returned,
                   failedAt, failedItems>>
    /\ UNCHANGED renderVars

\* fetch_database_pages returns `pages` to the frame below it
ReturnPages(pages) ==
    LET caller == Below[Len(Below)]
        rest == SubSeq(Below, 1, Len(Below) - 1)
    IN  IF caller.fn = "index"
        THEN stack' = rest \o
                <<SettleIndex([caller EXCEPT !.pc = "db_pages", !.pages = pages,
                                             !.k = 1], request)>>
        ELSE stack' = rest \o
                <<Settle([caller EXCEPT
                              !.blocks[caller.i] = AttachChildren(@, <<>>),
                              !.pc = "db_pages", !.pages = pages, !.k = 1],
                         visited)>>

\* fetch_database_pages: one query request of the pagination loop
QueryDatabase ==
    /\ phase = "running"
    /\ Top.fn = "fdp"
    /\ LET known == Top.id \in DOMAIN Stores[store].databases
       IN  \E ok \in Answers(known) :
             /\ failures' = Injected(ok, known)
             /\ IF ok
                THEN LET ans == ListingAnswer(Stores[store].databases[Top.id].pages,
                                              Top.cursor)
                         pages == ExtendPages(Top.pages, ans.results)
                     IN  IF ans.has_more
                         THEN stack' = Below \o
                                <<[Top EXCEPT !.pages = pages,
                                              !.cursor = ans.next_cursor]>>
                         ELSE ReturnPages(pages)
                ELSE ReturnPages(Top.pages)
    /\ log' = Logged("db_query", Top.id)
    /\ UNCHANGED <<store, request, env_api_key, phase, notion_api_key, visited,
                   all_documents, response, item, walks, returned, failedAt,
                   failedItems>>
    /\ UNCHANGED renderVars

\* NotionRAG.process_page_to_document: the root fetch of page k of the
\* database listing
StartDatabasePage ==
    /\ phase = "running"
    /\ Top.fn = "index" /\ Top.pc = "db_pages"
    /\ RootCall(stack, Get(Top.pages[Top.k], "id", ""))
    /\ UNCHANGED <<store, request, env_api_key, phase, notion_api_key,
                   all_documents, response, failures, item, log, failedItems>>
    /\ UNCHANGED renderVars

\* NotionRAG.process_direct_page_to_document for page id i: get_page_info,
\* then the root fetch, or the ValueError the loop of index_notion_content
\* catches
GetPageInfo ==
    /\ phase = "running"
    /\ Top.fn = "index" /\ Top.pc = "pages"
    /\ LET page_id == request.page_ids[Top.i]
           known == page_id \in DOMAIN Stores[store].pages
       IN  \E ok \in Answers(known) :
             LET page_info == IF ok THEN Stores[store].pages[page_id]
                              ELSE EmptyDict
             IN  /\ failures' = Injected(ok, known)
                 /\ log' = log \cup {[op |-> "page_info", id |-> page_id,
                                       item |-> <<"page", Top.i>>]}
                 /\ failedItems' = IF ok THEN failedItems
                                   ELSE failedItems \cup {Top.i}
                 /\ IF ~LookupRaises(page_info)
                    THEN /\ RootCall(Below \o <<[Top EXCEPT !.info = page_info]>>,
                                     page_id)
                         /\ UNCHANGED <<phase, response>>
                    ELSE IF CaughtPerPage("ValueError")
                    THEN /\ stack' = Below \o
                                <<SettleIndex([Top EXCEPT !.i = @ + 1], request)>>
                         /\ UNCHANGED <<phase, response, visited, walks,
                                        returned, failedAt>>
                    ELSE /\ stack' = <<>>
                         /\ phase' = "done"
                         /\ response' = ErrorResponse("ValueError",
                                <<"Could not retrieve page info for page ID: ",
                                  page_id>>)
                         /\ UNCHANGED <<visited, walks, returned, failedAt>>
    /\ item' = <<"page", Top.i>>
    /\ UNCHANGED <<store, request, env_api_key, notion_api_key, all_documents>>
    /\ UNCHANGED renderVars


\* get_page_content: one children request of the pagination loop; a
\* non-200 answer breaks out of the loop with what was accumulated
ListChildren ==
    /\ phase = "running"
    /\ Top.fn = "gpc" /\ Top.pc = "list"
    /\ LET known == Top.id \in DOMAIN Stores[store].children
       IN  \E ok \in Answers(known) :
             /\ failures' = Injected(ok, known)
             /\ IF ok
                THEN LET ans == ListingAnswer(Stores[store].children[Top.id],
                                              Top.cursor)
                         blocks == ExtendBlocks(Top.blocks, ans.results)
                     IN  /\ stack' = Below \o
                              <<IF ans.has_more
                                THEN [Top EXCEPT !.blocks = blocks,
                                                 !.cursor = ans.next_cursor]
                                ELSE Settle([Top EXCEPT !.blocks = blocks,
                                                        !.pc = "databases",
                                                        !.i = 1], visited)>>
                         /\ UNCHANGED failedAt
                ELSE /\ stack' = Below \o
                          <<Settle([Top EXCEPT !.blocks = KeptOnFailure(@),
                                               !.pc = "databases", !.i = 1],
                                   visited)>>
                     /\ failedAt' = With(failedAt, Top.id,
                                         IF Top.cursor = 0 THEN 1 ELSE Top.cursor)
    /\ log' = Logged("children", Top.id)
    /\ UNCHANGED <<store, request, env_api_key, phase, notion_api_key, visited,
                   all_documents, response, item, walks, returned, failedItems>>
    /\ UNCHANGED renderVars

\* get_page_content, first loop, at a child_database block: get_database_info
\* and the call of fetch_database_pages
GetDatabaseInfo ==
    /\ phase = "running"
    /\ Top.fn = "gpc" /\ Top.pc = "databases"
    /\ Len(stack) < MaxDepth
    /\ LET database_id == Top.blocks[Top.i]["id"]
           known == database_id \in DOMAIN Stores[store].databases
       IN  /\ \E ok \in Answers(known) :
                LET database_info ==
                        IF ok THEN Stores[store].databases[database_id].info
                        ELSE EmptyDict
                    caller ==
                        IF Truthy(database_info)
                        THEN [Top EXCEPT !.blocks[Top.i] =
                                  With(@, "database_info", database_info)]
                        ELSE Top
                IN  /\ failures' = Injected(ok, known)
                    /\ stack' = Below \o
                          <<caller, Frame("fdp", "query", database_id)>>
           /\ log' = Logged("db_info", database_id)
    /\ UNCHANGED <<store, request, env_api_key, phase, notion_api_key, visited,
                   all_documents, response, item, walks, returned, failedAt,
                   failedItems>>
    /\ UNCHANGED renderVars

\* get_page_content: a recursive call that passes the visited guard (of a
\* database page, of a block's children, of a column's children)
CallPageContent ==
    /\ phase = "running"
    /\ Top.fn = "gpc" /\ Top.pc \in {"db_pages", "children", "columns"}
    /\ Len(stack) < MaxDepth
    /\ LET block_id == PendingCall(Top)
           caller == IF Top.pc = "db_pages" THEN AppendDatabasePage(Top) ELSE Top
       IN  /\ stack' = Below \o <<caller, Frame("gpc", "list", block_id)>>
           /\ visited' = Mark(visited, block_id)
           /\ walks' = With(walks, block_id, Get(walks, block_id, 0) + 1)
    /\ UNCHANGED <<store, request, env_api_key, phase, notion_api_key,
                   all_documents, response, failures, item, log, returned,
                   failedAt, failedItems>>
    /\ UNCHANGED renderVars

\* the caller of a walk that returned takes the result and runs on: a walk
\* attaches it, index_notion_content holds it for the document it makes next
ResumeCaller(caller, result) ==
    IF caller.fn = "gpc"
    THEN Settle(CASE caller.pc = "db_pages" -> AfterDatabasePage(caller, result)
                  [] caller.pc = "children" -> AfterChild(caller, result)
                  [] caller.pc = "columns" -> AfterColumn(caller, result),
                visited)
    ELSE [caller EXCEPT !.blocks = result,
                        !.pc = IF caller.pc = "db_pages"
                               THEN "db_document" ELSE "page_document"]

\* get_page_content returns its blocks: to the get_page_content frame that
\* attaches them, or to index_notion_content
ReturnPageContent ==
    /\ phase = "running"
    /\ Top.fn = "gpc" /\ Top.pc = "return"
    /\ returned' = With(returned, Top.id, Top.blocks)
    /\ stack' = SubSeq(Below, 1, Len(Below) - 1)
                    \o <<ResumeCaller(Below[Len(Below)], Top.blocks)>>
    /\ UNCHANGED <<store, request, env_api_key, phase, notion_api_key, visited,
                   all_documents, response, failures, item, log, walks,
                   failedAt, failedItems>>
    /\ UNCHANGED renderVars

\* index_notion_content makes the document of the content it fetched, appends
\* it to all_documents and goes to its next page
ProcessDocument ==
    /\ phase = "running"
    /\ Top.fn = "index" /\ Top.pc \in {"db_document", "page_document"}
    /\ all_documents' =
          Append(all_documents,
                 IF Top.pc = "db_document"
                 THEN ProcessPageToDocument(Top.pages[Top.k], Top.blocks)
                 ELSE ProcessDirectPageToDocument(Top.info, Top.blocks))
    /\ stack' = Below \o
          <<SettleIndex(IF Top.pc = "db_document"
                        THEN [Top EXCEPT !.pc = "db_pages", !.blocks = <<>>,
                                         !.k = @ + 1]
                        ELSE [Top EXCEPT !.pc = "pages", !.blocks = <<>>,
                                         !.i = @ + 1, !.info = EmptyDict],
                        request)>>
    /\ UNCHANGED <<store, request, env_api_key, phase, notion_api_key, visited,
                   response, failures, item, log, walks, returned, failedAt,
                   failedItems>>
    /\ UNCHANGED renderVars

\* index_notion_content returns and process_notion_content answers
Respond ==
    /\ phase = "running"
    /\ Top.fn = "index" /\ Top.pc = "finish"
    /\ response' = CombinedResponse(ContentList(all_documents))
    /\ phase' = "done"
    /\ stack' = <<>>
    /\ UNCHANGED <<store, request, env_api_key, notion_api_key, visited,
                   all_documents, failures, item, log, walks, returned,
                   failedAt, failedItems>>
    /\ UNCHANGED renderVars

\* -------------------------------------------------------- specifications

\* the renderer harness is idle while the pipeline runs
RenderIdle == rblock = NoBlock /\ rout = <<>> /\ rdone = FALSE

Init ==
    /\ store \in DOMAIN Stores
    /\ request \in
        [notion_api_key : {"", "secret"},
         database_ids : SeqsUpTo(DatabaseIdsOf(store), MaxDatabaseIds),
         page_ids : SeqsUpTo(PageIdsOf(store), MaxPageIds)]
    /\ env_api_key \in {"", "secret"}
    /\ phase = "start"
    /\ notion_api_key = ""
    /\ stack = <<>>
    /\ visited = {}
    /\ all_documents = <<>>
    /\ response = NoResponse
    /\ failures = 0
    /\ item = NoItem
    /\ log = {}
    /\ walks = EmptyDict
    /\ returned = EmptyDict
    /\ failedAt = EmptyDict
    /\ failedItems = {}
    /\ RenderIdle

Next ==
    \/ Construct
    \/ StartDatabase
    \/ QueryDatabase
    \/ StartDatabasePage
    \/ GetPageInfo
    \/ ListChildren
    \/ GetDatabaseInfo
    \/ CallPageContent
    \/ ReturnPageContent
    \/ ProcessDocument
    \/ Respond

Spec == Init /\ [][Next]_vars

\* a step of get_page_content: a request of a walk and its answer, a nested
\* call, a return
FetchStep ==
    \/ QueryDatabase
    \/ ListChildren
    \/ GetDatabaseInfo
    \/ CallPageContent
    \/ ReturnPageContent

\* the program is sequential, every request is answered (requests.get
\* returns) and the interpreter runs the statement that follows: a step of
\* get_page_content that can be taken is taken
FairSpec == Spec /\ WF_vars(FetchStep)


\* ------------------------------------------------------ renderer harness
\* _extract_text_from_block applied to one block drawn from RenderInputs

MaxRows == 3     \* most table_row children of an input table
MaxCells == 2    \* most cells of a row

Letters == <<"A", "B", "C", "D", "E", "F">>

\* the rich text of cell k of row r, per variant: "plain" names the cell
\* (row 1 is A B .., row 2 is 1 2 ..), "bar" puts a "|" into the first cell
\* of the first row, "blank" leaves every cell without text objects,
\* "runs" gives every cell two text objects
CellObjects(variant, r, k) ==
    LET name == IF r = 1 THEN <<Letters[k]>>
                ELSE IF r = 2 THEN <<ToString(k)>>
                ELSE <<ToString(r), ".", ToString(k)>>
    IN  CASE variant = "blank" -> <<>>
          [] variant = "bar" /\ r = 1 /\ k = 1 ->
                <<[plain_text |-> <<"a", BAR, "b">>]>>
          [] variant = "runs" ->
                <<[plain_text |-> name], [plain_text |-> <<"more">>]>>
          [] OTHER -> <<[plain_text |-> name]>>

RowInput(variant, r, c) ==
    Block(ToString(r), "table_row", FALSE,
          [cells |-> [k \in 1..c |-> CellObjects(variant, r, k)]])

TableInput(header, n, c, variant, mixed) ==
    With(Block("t", "table", n > 0,
               CASE header = "yes" -> [has_column_header |-> TRUE]
                 [] header = "no" -> [has_column_header |-> FALSE]
                 [] OTHER -> [table_width |-> c]),
         "children",
         (IF mixed THEN <<Para("p", "note")>> ELSE <<>>)
            \o [r \in 1..n |-> RowInput(variant, r, c)])

TableInputs ==
    {TableInput(header, n, c, variant, mixed) :
        header \in {"yes", "no", "absent"}, n \in 0..MaxRows, c \in 0..MaxCells,
        variant \in {"plain", "bar", "blank", "runs"}, mixed \in BOOLEAN}

UnknownTypes == {"unsupported_widget", "unsupported", "ai_block"}

\* a block of type t, with or without the payload entry under its type name,
\* with no children key, an empty children list or one child
TypedInput(t, payload, kids) ==
    LET base == [object |-> "block", id |-> "x", type |-> t,
                 has_children |-> kids = "one"]
        withPayload ==
            IF payload
            THEN With(base, t,
                      [rich_text |-> <<[plain_text |-> <<"text">>]>>,
                       caption |-> <<[plain_text |-> <<"caption">>]>>,
                       url |-> <<"https://example.com">>,
                       language |-> <<"python">>, checked |-> TRUE,
                       icon |-> [emoji |-> <<"!">>],
                       expression |-> <<"e=mc^2">>,
                       page_id |-> "P9", title |-> <<"Title">>,
                       cells |-> <<<<[plain_text |-> <<"cell">>]>>>>,
                       synced_from |-> EmptyDict])
            ELSE base
    IN  CASE kids = "absent" -> withPayload
          [] kids = "empty" -> With(withPayload, "children", <<>>)
          [] OTHER -> With(withPayload, "children", <<Para("c", "child")>>)

TypedInputs ==
    {TypedInput(t, payload, kids) :
        t \in UnknownTypes \cup (KnownTypes \ {"table"}),
        payload \in BOOLEAN, kids \in {"absent", "empty", "one"}}

MaxChildPages == 2   \* most pages attached to an input child_database

PageTitles == {"Task 1", "Task 2", ""}

\* page i of a database listing as the fetcher attaches it: "" is a page
\* whose title property holds no text; with or without page_content
ChildPageInput(i, title, content) ==
    LET page == [object |-> "page", id |-> ToString(i),
                 properties |->
                    << <<"Status", [type |-> "select",
                                    select |-> [name |-> <<"Open">>]]>>,
                       <<"Name", [type |-> "title",
                                  title |-> IF title = "" THEN <<>>
                                            ELSE <<[plain_text |-> <<title>>]>>]>> >>]
    IN  IF content
        THEN With(page, "page_content", <<Para("b", "body")>>)
        ELSE page

SchemaNames == <<"Status", "Name">>

\* a child_database block: schema "absent" (no database_info), or attached
\* with n property names and a title or none; the pages titled `titles`
DatabaseInput(schema, n, titled, titles, content) ==
    LET base == Block("d", "child_database", FALSE, [title |-> <<"Tasks">>])
        info == [title |-> IF titled THEN <<[plain_text |-> <<"Board">>]>>
                           ELSE <<>>,
                 properties |->
                    [k \in 1..n |-> <<SchemaNames[k], [type |-> "select"]>>]]
        withInfo == IF schema = "attached"
                    THEN With(base, "database_info", info) ELSE base
    IN  With(withInfo, "children",
             [i \in 1..Len(titles) |-> ChildPageInput(i, titles[i], content)])

DatabaseInputs ==
    {DatabaseInput(schema, n, titled, titles, content) :
        schema \in {"absent", "attached"}, n \in 0..Len(SchemaNames),
        titled \in BOOLEAN, titles \in SeqsUpTo(PageTitles, MaxChildPages),
        content \in BOOLEAN}

MaxColumns == 2   \* most columns of an input column_list

\* the children of an input column: none attached ("absent"), or a list of
\* paragraphs (one without text) and toggles with a nested paragraph
ColumnBodies ==
    {"absent", "none", "para", "blank", "toggle", "para+toggle", "blank+para"}

ColumnChildren(body, k) ==
    LET para == Para(ToString(k), "text")
        blank == Block(ToString(k), "paragraph", FALSE, [rich_text |-> <<>>])
        toggle == With(Block(ToString(k), "toggle", TRUE, RichText("more")),
                       "children", <<Para(ToString(k), "inner")>>)
    IN  CASE body = "para" -> <<para>>
          [] body = "blank" -> <<blank>>
          [] body = "toggle" -> <<toggle>>
          [] body = "para+toggle" -> <<para, toggle>>
          [] body = "blank+para" -> <<blank, para>>
          [] OTHER -> <<>>

ColumnInput(body, k) ==
    LET column == Block(ToString(k), "column", body \notin {"absent", "none"},
                        EmptyDict)
    IN  IF body = "absent" THEN column
        ELSE With(column, "children", ColumnChildren(body, k))

\* a column_list with the columns of `bodies`, and with or without a child
\* that is no column
ColumnListInput(bodies, stray) ==
    With(Block("cl", "column_list", TRUE, EmptyDict),
         "children",
         [k \in 1..Len(bodies) |-> ColumnInput(bodies[k], k)]
            \o (IF stray THEN <<Para("s", "stray")>> ELSE <<>>))

ColumnListInputs ==
    {ColumnListInput(bodies, stray) :
        bodies \in SeqsUpTo(ColumnBodies, MaxColumns), stray \in BOOLEAN}

RenderInputs ==
    TableInputs \cup TypedInputs \cup DatabaseInputs \cup ColumnListInputs

\* the pipeline is idle while the renderer harness runs
PipeIdle ==
    /\ store = "doc"
    /\ request = [notion_api_key |-> "", database_ids |-> <<>>, page_ids |-> <<>>]
    /\ env_api_key = ""
    /\ phase = "off"
    /\ notion_api_key = ""
    /\ stack = <<>>
    /\ visited = {}
    /\ all_documents = <<>>
    /\ response = NoResponse
    /\ failures = 0
    /\ item = NoItem
    /\ log = {}
    /\ walks = EmptyDict
    /\ returned = EmptyDict
    /\ failedAt = EmptyDict
    /\ failedItems = {}

RenderInit ==
    /\ rblock \in RenderInputs
    /\ rout = <<>>
    /\ rdone = FALSE
    /\ PipeIdle

\* NotionProcessor._extract_text_from_block(rblock)
Render ==
    /\ ~rdone
    /\ rout' = ExtractText(rblock)
    /\ rdone' = TRUE
    /\ UNCHANGED rblock
    /\ UNCHANGED pipeVars

RenderNext == Render

RenderSpec == RenderInit /\ [][RenderNext]_vars

\* ------------------------------------------------------ document harness
\* process_page_to_document and process_direct_page_to_document applied to
\* one page drawn from PageInputs, with no content blocks

MaxProperties == 2   \* most properties of an input page besides its title

\* a property value as the API returns it, with a value and without one
\* (None and the empty list are the empty value here)
PropertyValues ==
    {[type |-> "rich_text", rich_text |-> <<[plain_text |-> <<"note">>]>>],
     [type |-> "rich_text", rich_text |-> <<>>],
     [type |-> "number", number |-> <<"7">>],
     [type |-> "number", number |-> <<>>],
     [type |-> "select", select |-> [name |-> <<"Open">>]],
     [type |-> "select", select |-> EmptyDict],
     [type |-> "multi_select",
      multi_select |-> <<[name |-> <<"x">>], [name |-> <<"y">>]>>],
     [type |-> "multi_select", multi_select |-> <<>>],
     [type |-> "date", date |-> [start |-> <<"2024-03-01">>]],
     [type |-> "date", date |-> EmptyDict],
     [type |-> "checkbox", checkbox |-> TRUE],
     [type |-> "checkbox", checkbox |-> FALSE],
     [type |-> "url", url |-> <<"https://example.com">>],
     [type |-> "url", url |-> <<>>],
     [type |-> "email", email |-> <<"a@example.com">>],
     [type |-> "email", email |-> <<>>],
     [type |-> "phone_number", phone_number |-> <<"555">>],
     [type |-> "phone_number", phone_number |-> <<>>],
     [type |-> "people", people |-> <<>>]}

PropertyNames == <<"First", "Second", "Third">>

\* a page: its title property and the properties `values` under their names
PageInput(values) ==
    [object |-> "page", id |-> "P",
     url |-> <<"https://www.notion.so/P">>,
     created_time |-> <<"2024-01-01">>, last_edited_time |-> <<"2024-01-02">>,
     properties |->
        << <<"Name", [type |-> "title",
                      title |-> <<[plain_text |-> <<"Doc">>]>>]>> >>
        \o [k \in 1..Len(values) |-> <<PropertyNames[k], values[k]>>]]

PageInputs == {PageInput(values) : values \in SeqsUpTo(PropertyValues, MaxProperties)}

NoDocument == [path |-> "none"]

DocumentInit ==
    /\ rblock \in PageInputs
    /\ rout = NoDocument
    /\ rdone = FALSE
    /\ PipeIdle

\* NotionRAG.process_page_to_document: a page of a database listing
ListedPageDocument ==
    /\ rout = NoDocument
    /\ rout' = [path |-> "listed",
                document |-> ProcessPageToDocument(rblock, <<>>)]
    /\ rdone' = TRUE
    /\ UNCHANGED rblock
    /\ UNCHANGED pipeVars

\* NotionRAG.process_direct_page_to_document: a page requested by its id
DirectPageDocument ==
    /\ rout = NoDocument
    /\ rout' = [path |-> "direct",
                document |-> ProcessDirectPageToDocument(rblock, <<>>)]
    /\ rdone' = TRUE
    /\ UNCHANGED rblock
    /\ UNCHANGED pipeVars

DocumentNext == ListedPageDocument \/ DirectPageDocument

DocumentSpec == DocumentInit /\ [][DocumentNext]_vars

\* ------------------------------------------------------------ properties

\* a get_page_content call is in progress
FetchActive == \E n \in 1..Len(stack) : stack[n].fn = "gpc"

\* the keys get_page_content adds to the records the API returned
AddedKeys == {"children", "database_info"}

\* a returned block as the API listed it
Listed(block) == [key \in DOMAIN block \ AddedKeys |-> block[key]]

ListedSeq(blocks) == [n \in 1..Len(blocks) |-> Listed(blocks[n])]

\* the items of the first n listing pages of an id, in listing order
ListingPrefix(id, n) ==
    IF id \in DOMAIN Stores[store].children
    THEN FlatAll(SubSeq(Stores[store].children[id], 1, n))
    ELSE <<>>

ListingLength(id) ==
    IF id \in DOMAIN Stores[store].children
    THEN Len(Stores[store].children[id]) ELSE 0

HasCredential == request.notion_api_key # "" \/ env_api_key # ""

ChildrenRequests == {e \in log : e.op = "children"}

\* C1: every get_page_content call, started from an empty visited set on any
\* store, among them the store with the synced reference cycle, returns:
\* whenever a fetch is in progress, it is eventually over.
C1_CycleSafety == FetchActive ~> ~FetchActive

\* C1 witness: the root fetch of A, on the store where a block under A
\* references B and a block under B references A, has walked both and returned
C1_Witness ==
    /\ store = "sync"
    /\ "A" \in DOMAIN returned /\ "B" \in DOMAIN returned
    /\ ~FetchActive

\* C2: within one root fetch the children walk of an id is started at most
\* once.
C2_NoDoubleExpansion == \A id \in DOMAIN walks : walks[id] <= 1

\* C2 witness: a finished root fetch in which the guard answered a second
\* call: column C1, reached through the walk of the column_list and again by
\* the per-column pass, was walked once
C2_Witness ==
    /\ store = "cols"
    /\ "P4" \in DOMAIN returned
    /\ Get(walks, "C1", 0) = 1

\* C3: a walk whose requests all succeeded returns exactly the items of all
\* the listing pages of its id, in listing order.
C3_PaginationComplete ==
    \A id \in DOMAIN returned :
        id \notin DOMAIN failedAt =>
            ListedSeq(returned[id]) = ListingPrefix(id, ListingLength(id))

\* C3 witness: the walk of P1, whose listing has three listing pages, returned
\* without a failed request
C3_Witness ==
    /\ store = "doc"
    /\ "P1" \in DOMAIN returned /\ "P1" \notin DOMAIN failedAt
    /\ ListingLength("P1") = 3

\* C4: a walk whose request for listing page j failed returns the items of
\* listing pages 1..j-1; no error leaves the fetch (the response is no error
\* response), and every other listed block with children is still fetched.
C4_FailureAbsorbed ==
    /\ \A id \in DOMAIN returned \cap DOMAIN failedAt :
          ListedSeq(returned[id]) = ListingPrefix(id, failedAt[id] - 1)
    /\ \A id \in DOMAIN returned :
          \A n \in 1..Len(returned[id]) :
             LET block == returned[id][n]
             IN  (Get(block, "has_children", FALSE) /\ FetchTarget(block) # "")
                    => FetchTarget(block) \in visited
    /\ (phase = "done" /\ HasCredential) => response.status = 200

\* C4 witness: the request for the second listing page of table t1 failed,
\* t1's walk returned the first listing page, and the walk of the page above
\* it went on and returned
C4_Witness ==
    /\ store = "doc"
    /\ "t1" \in DOMAIN failedAt /\ failedAt["t1"] = 2
    /\ "t1" \in DOMAIN returned /\ Len(returned["t1"]) = 1
    /\ "P1" \in DOMAIN returned /\ Len(returned["P1"]) = 4

\* C5: with no credential in the request and none in the environment the
\* operation answers with the client error and issues no request.
C5_MissingCredential ==
    (request.notion_api_key = "" /\ env_api_key = "") =>
        /\ log = {}
        /\ phase # "running"
        /\ phase = "done" => response.status = 400

\* C5 witness: a request naming pages and databases was refused for its
\* missing credential
C5_Witness ==
    /\ request.notion_api_key = "" /\ env_api_key = ""
    /\ request.page_ids # <<>> /\ request.database_ids # <<>>
    /\ phase = "done"

\* the indices of page_ids whose lookup succeeded, in request order
RECURSIVE ResolvedFrom(_)
ResolvedFrom(n) ==
    IF n > Len(request.page_ids) THEN <<>>
    ELSE (IF n \in failedItems THEN <<>> ELSE <<n>>) \o ResolvedFrom(n + 1)

\* C6: at the end every requested page id was looked up, the answer is no
\* error, and the documents of the page ids are those of the ids that
\* resolved, in request order, each part of the combined text.
C6_PerItemIsolation ==
    (phase = "done" /\ HasCredential) =>
        LET resolved == ResolvedFrom(1)
            first == Len(all_documents) - Len(resolved)
        IN  /\ \A n \in 1..Len(request.page_ids) :
                  [op |-> "page_info", id |-> request.page_ids[n],
                   item |-> <<"page", n>>] \in log
            /\ response.status = 200
            /\ first >= 0
            /\ \A j \in 1..Len(resolved) :
                  all_documents[first + j].metadata.page_id
                      = request.page_ids[resolved[j]]
            /\ all_documents # <<>> =>
                  response.text =
                      Join(<<NL, NL>>,
                           [n \in 1..Len(all_documents) |->
                               all_documents[n].page_content])

\* C6 witness: of two requested ids the first failed and the second resolved
\* and was rendered
C6_Witness ==
    /\ phase = "done"
    /\ Len(request.page_ids) = 2
    /\ failedItems = {1}
    /\ Len(all_documents) >= 1
    /\ all_documents[Len(all_documents)].metadata.page_id = request.page_ids[2]

\* C7: no children request is issued for a requested page id whose lookup
\* failed.
C7_NoFetchAfterFailedLookup ==
    \A n \in failedItems :
        \A e \in ChildrenRequests : e.item # <<"page", n>>

\* C7 witness: the lookup of the first page id failed, the second was
\* fetched, and the operation ended
C7_Witness ==
    /\ phase = "done"
    /\ 1 \in failedItems
    /\ \E e \in ChildrenRequests : e.item = <<"page", 2>>

\* no requested root was resolved: every page lookup failed and no database
\* listing produced a page to fetch
NoRootResolved ==
    /\ failedItems = 1..Len(request.page_ids)
    /\ \A e \in ChildrenRequests : e.item[1] # "database"

\* C8: with a credential and no resolved root the operation answers
\* successfully with the "no content" text.
C8_NoContent ==
    (phase = "done" /\ HasCredential /\ NoRootResolved) =>
        response = [status |-> 200,
                    text |-> <<"No content found or processed.">>]

\* C8 witness: every requested page id and the requested database failed
C8_Witness ==
    /\ phase = "done" /\ HasCredential /\ NoRootResolved
    /\ Len(request.page_ids) = 2 /\ Len(request.database_ids) = 1
    /\ response.status = 200


\* the table_row children of a block
RowsOf(block) ==
    LET children == Get(block, "children", <<>>)
    IN  FlatAll([n \in 1..Len(children) |->
            IF Get(children[n], "type", "") = "table_row"
            THEN <<children[n]>> ELSE <<>>])

\* the text of a cell: its text objects' plain texts, space-separated
CellString(cell) ==
    Join(<<" ">>, [n \in 1..Len(cell) |-> cell[n].plain_text])

CellsOf(row) == row["table_row"].cells

\* "| cell | cell |"
BarLine(cellTexts) ==
    <<BAR, " ">> \o Join(<<" ", BAR, " ">>, cellTexts) \o <<" ", BAR>>

RowLine(row) ==
    IF Len(CellsOf(row)) = 0 THEN <<BAR, " Empty row ", BAR>>
    ELSE BarLine([k \in 1..Len(CellsOf(row)) |-> CellString(CellsOf(row)[k])])

\* a rendered table with a header row and n >= 2 table_row children
HeaderTableRendered ==
    /\ rdone
    /\ Get(rblock, "type", "") = "table"
    /\ Get(rblock["table"], "has_column_header", FALSE) = TRUE
    /\ Len(RowsOf(rblock)) >= 2

\* C9 as stated: n+1 lines, first row, separator of c cells, the remaining
\* rows, and no "Table:" line.
C9_Original ==
    HeaderTableRendered =>
        LET rows == RowsOf(rblock)
            c == Len(CellsOf(rows[1]))
        IN  Split(rout, NL) =
                <<RowLine(rows[1]), BarLine(Repeat(<<"---">>, c))>>
                    \o [r \in 1..(Len(rows) - 1) |-> RowLine(rows[r + 1])]

\* C9 amended: the output is the "Table:" label line, the first row, one
\* separator row and the remaining rows in order, n+2 unindented lines; the
\* separator has one "---" cell per "|" of the rendered first row, less one,
\* which is c when c >= 1 and no cell of the first row holds a "|".
C9_TableRendering ==
    HeaderTableRendered =>
        LET rows == RowsOf(rblock)
            cells == CellsOf(rows[1])
            c == Len(cells)
            regular == c >= 1 /\ \A k \in 1..c : Count(CellString(cells[k]), BAR) = 0
            width == IF regular THEN c ELSE Count(RowLine(rows[1]), BAR) - 1
        IN  /\ Split(rout, NL) =
                <<<<"Table:">>, RowLine(rows[1]), BarLine(Repeat(<<"---">>, width))>>
                    \o [r \in 1..(Len(rows) - 1) |-> RowLine(rows[r + 1])]
            /\ Len(Split(rout, NL)) = Len(rows) + 2

\* C9 witness: header table with rows A B and 1 2
C9_Witness ==
    /\ rdone
    /\ rblock = TableInput("yes", 2, 2, "plain", FALSE)
    /\ rout = <<"Table:", NL,
                BAR, " ", "A", " ", BAR, " ", "B", " ", BAR, NL,
                BAR, " ", "---", " ", BAR, " ", "---", " ", BAR, NL,
                BAR, " ", "1", " ", BAR, " ", "2", " ", BAR>>

\* a rendered block whose type is a non-empty string outside the renderer's
\* enumeration
UnknownRendered ==
    /\ rdone
    /\ Get(rblock, "type", "") # ""
    /\ Get(rblock, "type", "") \notin KnownTypes

\* C10 as stated: with or without a payload entry under the type name the
\* own fragment (the first line of the output) is [<type>].
C10_Original ==
    UnknownRendered => Split(rout, NL)[1] = <<"[", rblock.type, "]">>

\* C10 amended: with a payload entry under the type name the own fragment is
\* [<type>]; without one the output is empty.
C10_UnknownFallback ==
    UnknownRendered =>
        IF rblock.type \in DOMAIN rblock
        THEN Split(rout, NL)[1] = <<"[", rblock.type, "]">>
        ELSE rout = <<>>

\* C10 witness: an unsupported_widget block with its payload entry
C10_Witness ==
    /\ rdone
    /\ rblock = TypedInput("unsupported_widget", TRUE, "absent")
    /\ rout = <<"[", "unsupported_widget", "]">>


\* a rendered child_database block with attached schema metadata that names
\* at least one property, and at least one attached page
DatabaseRendered ==
    /\ rdone
    /\ Get(rblock, "type", "") = "child_database"
    /\ "child_database" \in DOMAIN rblock
    /\ "database_info" \in DOMAIN rblock
    /\ Get(rblock["database_info"], "properties", <<>>) # <<>>
    /\ Get(rblock, "children", <<>>) # <<>>

\* the line "Columns: <comma-joined property names>" of a schema
ColumnsLine(database_info) ==
    LET properties == database_info["properties"]
    IN  <<"Columns: ">>
            \o Join(<<", ">>, [k \in 1..Len(properties) |-> <<properties[k][1]>>])

ContainsLine(n) == <<"Contains ", ToString(n), " pages:">>

\* the fragment has the Columns line, after it the Contains line for the
\* number of attached pages, and right after that the bullets `titles`
HasListing(lines, block, titles) ==
    \E c \in 1..Len(lines) : \E a \in (c + 1)..Len(lines) :
        /\ lines[c] = ColumnsLine(block["database_info"])
        /\ lines[a] = ContainsLine(Len(block["children"]))
        /\ a + Len(titles) <= Len(lines)
        /\ \A i \in 1..Len(titles) : lines[a + i] = <<"- ">> \o titles[i]
        /\ a + Len(titles) < Len(lines) =>
                \/ lines[a + Len(titles) + 1] = <<>>
                \/ Head(lines[a + Len(titles) + 1]) # "- "

\* the title-type property text of every attached page, in child order
ChildTitles(block) ==
    [i \in 1..Len(block["children"]) |->
        PageTitle(Get(block["children"][i], "properties", <<>>))]

\* C11 as stated: the fragment has the Columns line, the Contains N pages
\* line and after it one bullet per attached page, in child order.
C11_Original ==
    DatabaseRendered => HasListing(Split(rout, NL), rblock, ChildTitles(rblock))

\* C11 amended: the fragment has the Columns line, the Contains N pages line
\* and after it one bullet per attached page whose title has text, in child
\* order; a page whose title is empty is counted in N and gets no bullet.
C11_DatabaseRendering ==
    DatabaseRendered =>
        HasListing(Split(rout, NL), rblock, NonEmpty(ChildTitles(rblock)))

\* C11 witness: schema {Status}, one page titled Task 1
C11_Witness ==
    /\ rdone
    /\ rblock = DatabaseInput("attached", 1, FALSE, <<"Task 1">>, FALSE)
    /\ rout = <<"Child database: ", "Tasks", NL, "Columns: ", "Status", NL,
                "Contains ", "1", " pages:", NL, "- ", "Task 1">>


\* the positions <<id, n>> of the blocks the finished walks of this root
\* fetch returned
ReturnedBlocks ==
    UNION {{<<id, n>> : n \in 1..Len(returned[id])} : id \in DOMAIN returned}

\* the returned synced_block references with has_children = true
ReturnedReferences ==
    {p \in ReturnedBlocks :
        LET block == returned[p[1]][p[2]]
        IN  /\ Get(block, "type", "") = "synced_block"
            /\ Get(block, "has_children", FALSE)
            /\ "synced_block" \in DOMAIN block
            /\ "block_id" \in
                   DOMAIN Get(block["synced_block"], "synced_from", EmptyDict)}

OriginalOf(block) == block["synced_block"]["synced_from"]["block_id"]

\* C13: a returned synced reference with has_children carries as children
\* exactly what the walk of its original returned, that walk ran once on the
\* original's id and none ran on the reference's id; a reference without
\* attached children is one whose original was visited already.
C13_SyncedSubstitution ==
    \A p \in ReturnedReferences :
        LET block == returned[p[1]][p[2]]
            original == OriginalOf(block)
        IN  IF "children" \in DOMAIN block
            THEN /\ original \in DOMAIN returned
                 /\ block["children"] = returned[original]
                 /\ Get(walks, original, 0) = 1
                 /\ block["id"] \notin DOMAIN walks
            ELSE original \in visited

\* C13 witness: the walk of A returned; the reference sa to B carries the
\* blocks the walk of B returned
C13_Witness ==
    /\ store = "sync"
    /\ "A" \in DOMAIN returned /\ "B" \in DOMAIN returned
    /\ Len(returned["B"]) = 2
    /\ "children" \in DOMAIN returned["A"][1]
    /\ returned["A"][1]["children"] = returned["B"]


\* the returned child_database blocks with an id
ReturnedDatabases ==
    {p \in ReturnedBlocks : IsDatabase(returned[p[1]][p[2]])}

\* the pages of all the listing pages of a database, in listing order
DatabaseListing(id) ==
    IF id \in DOMAIN Stores[store].databases
    THEN FlatAll(Stores[store].databases[id].pages)
    ELSE <<>>

\* a page as the API listed it
ListedPage(page) == [key \in DOMAIN page \ {"page_content"} |-> page[key]]

\* what C14 says of the blocks the finished walks returned: the children of
\* a child_database block start with the pages of its listing, in listing
\* order (when no request failed); a page with page_content holds what the
\* one walk of its id returned, a page without is one whose id was visited
ExpandedDatabases ==
    \A p \in ReturnedDatabases :
        LET block == returned[p[1]][p[2]]
            listing == DatabaseListing(block["id"])
            kids == Get(block, "children", <<>>)
        IN  /\ failures = 0 =>
                /\ Len(kids) >= Len(listing)
                /\ \A n \in 1..Len(listing) : ListedPage(kids[n]) = listing[n]
            /\ \A n \in 1..Len(kids) :
                  Get(kids[n], "object", "") = "page" =>
                     IF "page_content" \in DOMAIN kids[n]
                     THEN /\ kids[n]["id"] \in DOMAIN returned
                          /\ kids[n]["page_content"] = returned[kids[n]["id"]]
                          /\ Get(walks, kids[n]["id"], 0) = 1
                     ELSE kids[n]["id"] \in visited

\* a walk started for a page of an embedded database is about to return
DatabasePageReturns ==
    /\ phase = "running"
    /\ Len(stack) >= 2
    /\ Top.fn = "gpc" /\ Top.pc = "return"
    /\ Below[Len(Below)].fn = "gpc" /\ Below[Len(Below)].pc = "db_pages"

\* after that return the page appended last holds the returned blocks as
\* its page_content
ContentAttached ==
    LET caller == Below[Len(Below)]
        n == Len(caller.blocks[caller.i]["children"])
        page == stack'[Len(Below)].blocks[caller.i]["children"][n]
    IN  /\ page["id"] = Top.id
        /\ "page_content" \in DOMAIN page
        /\ page["page_content"] = Top.blocks

\* C14: every page of the listing of a child_database block is appended to
\* the block's children in listing order, visited or not; the page whose id
\* was not visited is walked and gets the returned blocks as page_content,
\* the page whose id was visited gets none.
C14_DatabaseExpansion ==
    /\ []ExpandedDatabases
    /\ [][DatabasePageReturns => ContentAttached]_vars

\* C14 witness: the walk of P3 returned with the three pages of DB under
\* the child_database block: Pg1 and Pg2 with page_content, P3 (the root,
\* visited) without
C14_Witness ==
    /\ store = "db" /\ failures = 0
    /\ "P3" \in DOMAIN returned
    /\ LET kids == returned["P3"][1]["children"]
       IN  /\ Len(kids) = 3
           /\ kids[1]["page_content"] = returned["Pg1"]
           /\ "page_content" \notin DOMAIN kids[2]
           /\ kids[3]["page_content"] = returned["Pg2"]


\* the types the claim calls scalar-typed
ScalarTypes ==
    {"rich_text", "number", "select", "multi_select", "date", "checkbox",
     "url", "email", "phone_number"}

\* the scalar form of a property value
ScalarOf(value) ==
    CASE value.type = "rich_text" ->
            Join(<<" ">>, [n \in 1..Len(value.rich_text) |->
                              value.rich_text[n].plain_text])
      [] value.type = "select" -> value.select.name
      [] value.type = "multi_select" ->
            [n \in 1..Len(value.multi_select) |-> value.multi_select[n].name]
      [] value.type = "date" -> value.date.start
      [] OTHER -> value[value.type]

\* a property without a value
EmptyProperty(value) ==
    /\ value.type # "checkbox"
    /\ value[value.type] = <<>>

IdentityKeys == {"page_id", "title", "url", "created_time", "last_edited_time"}

\* the metadata holds the identity fields of the page
HasIdentity(metadata, page) ==
    /\ IdentityKeys \subseteq DOMAIN metadata
    /\ metadata["page_id"] = page.id
    /\ metadata["url"] = page.url
    /\ metadata["created_time"] = page.created_time
    /\ metadata["last_edited_time"] = page.last_edited_time

\* the properties of the page besides its title, as <<name, value>>
ScalarProperties(page) ==
    {page.properties[k] : k \in 2..Len(page.properties)}

\* C15 as stated: on either path the metadata holds the identity fields and
\* every non-empty scalar-typed property, and no entry for an empty one.
C15_Original ==
    rout # NoDocument =>
        LET metadata == rout.document.metadata
        IN  /\ HasIdentity(metadata, rblock)
            /\ \A prop \in ScalarProperties(rblock) :
                  prop[2].type \in ScalarTypes =>
                     IF EmptyProperty(prop[2])
                     THEN prop[1] \notin DOMAIN metadata
                     ELSE /\ prop[1] \in DOMAIN metadata
                          /\ metadata[prop[1]] = ScalarOf(prop[2])

\* the properties process_page_to_document gives no entry: the empty
\* select, multi-select and date, and the types it does not know
WithoutEntry(value) ==
    \/ value.type \notin ScalarTypes
    \/ value.type \in {"select", "multi_select", "date"} /\ EmptyProperty(value)

\* C15 amended: the metadata of a page discovered through a database query
\* holds the identity fields and one entry per scalar-typed property, except
\* that an empty select, multi-select or date has none (an empty rich text,
\* number, url, email or phone has an entry with the empty value); the
\* metadata of a page requested by id holds the identity fields and
\* has_database_content, and no property.
C15_DocumentMetadata ==
    rout # NoDocument =>
        LET metadata == rout.document.metadata
            entries == {prop \in ScalarProperties(rblock) : ~WithoutEntry(prop[2])}
        IN  /\ HasIdentity(metadata, rblock)
            /\ IF rout.path = "listed"
               THEN /\ DOMAIN metadata =
                          IdentityKeys \cup {prop[1] : prop \in entries}
                    /\ \A prop \in entries :
                          metadata[prop[1]] = ScalarOf(prop[2])
               ELSE /\ DOMAIN metadata =
                          IdentityKeys \cup {"has_database_content"}
                    /\ metadata["has_database_content"] = FALSE

\* C15 witness: a listed page with a select and an empty date: the select's
\* name is an entry, the date has none
C15_Witness ==
    /\ rout # NoDocument
    /\ rout.path = "listed"
    /\ rblock = PageInput(<<[type |-> "select", select |-> [name |-> <<"Open">>]],
                            [type |-> "date", date |-> EmptyDict]>>)
    /\ rout.document.metadata["First"] = <<"Open">>
    /\ "Second" \notin DOMAIN rout.document.metadata


\* the walks that returned after one of their listing requests failed
FailedWalks == DOMAIN returned \cap DOMAIN failedAt

\* C16 as stated: a walk whose listing request failed returns the items it
\* had accumulated as they are, none of them expanded.
C16_Original ==
    \A id \in FailedWalks : returned[id] = ListingPrefix(id, failedAt[id] - 1)

\* a listing request of the walk on top of the stack fails in this step
ListingFails == \E id \in DOMAIN failedAt' : id \notin DOMAIN failedAt

\* the walk leaves its pagination loop with the items it has
PaginationStops ==
    LET after == stack'[Len(stack)]
    IN  /\ after.fn = "gpc" /\ after.id = Top.id
        /\ after.pc # "list"
        /\ ListedSeq(after.blocks) = ListedSeq(Top.blocks)

\* the items a failed walk returned were expanded like any others: a
\* child_database got its children list, a block with children that is no
\* synced reference had its own id fetched
AccumulatedExpanded ==
    \A id \in FailedWalks : \A n \in 1..Len(returned[id]) :
        LET block == returned[id][n]
        IN  /\ IsDatabase(block) => "children" \in DOMAIN block
            /\ (Get(block, "has_children", FALSE) /\ ~IsSyncedReference(block)) =>
                  /\ "children" \in DOMAIN block
                  /\ block["id"] \in visited

\* C16 amended: once a list-children request for node N has failed, no
\* further listing page of N is requested and the walk of N goes on with the
\* items accumulated so far, which are still expanded (database expansion,
\* recursion into children) before they are returned.
C16_FailureStopsPagination ==
    /\ [][ListingFails => PaginationStops]_vars
    /\ []AccumulatedExpanded

\* C16 witness: the request for the second listing page of P1 failed; the
\* walk returned the two items of the first, the toggle g1 with the
\* children its own walk returned
C16_Witness ==
    /\ store = "doc"
    /\ "P1" \in FailedWalks /\ failedAt["P1"] = 2
    /\ Len(returned["P1"]) = 2
    /\ "g1" \in DOMAIN returned
    /\ returned["P1"][2]["children"] = returned["g1"]
    /\ returned["g1"] # <<>>


\* C17 as stated: no children walk is started on the id of a child_database
\* block, and the children of a returned child_database block are pages
\* only.
C17_DatabaseOnlyExpanded ==
    \A p \in ReturnedDatabases :
        LET block == returned[p[1]][p[2]]
            kids == Get(block, "children", <<>>)
        IN  /\ block["id"] \notin DOMAIN walks
            /\ \A n \in 1..Len(kids) : Get(kids[n], "object", "") = "page"


\* a rendered column_list block with attached children
ColumnListRendered ==
    /\ rdone
    /\ Get(rblock, "type", "") = "column_list"
    /\ "column_list" \in DOMAIN rblock
    /\ Get(rblock, "children", <<>>) # <<>>

\* the lines of the body of a column: its rendered children, in order, the
\* empty fragments left out, with the indentation they have as children
BodyLines(column) ==
    LET children == Get(column, "children", <<>>)
        texts == NonEmpty([n \in 1..Len(children) |-> ExtractText(children[n])])
    IN  FlatAll([n \in 1..Len(texts) |-> Split(texts[n], NL)])

\* the body lines of the children of type column, in child order
ColumnLines(block) ==
    LET children == block["children"]
    IN  FlatAll([n \in 1..Len(children) |->
            IF Get(children[n], "type", "") = "column"
            THEN BodyLines(children[n]) ELSE <<>>])

\* a line that is a column label, whatever its indentation
IsLabel(line) ==
    \E n \in 1..Len(line) :
        /\ line[n] \in {"Column List:", "Column:"}
        /\ n = Len(line)
        /\ \A m \in 1..(n - 1) : line[m] = "  "

\* C18 as stated: the output is the body lines of the columns, in order,
\* with no indentation added, and no line of it is a column label.
C18_Original ==
    ColumnListRendered =>
        /\ rout = Join(<<NL>>, ColumnLines(rblock))
        /\ \A n \in 1..Len(Split(rout, NL)) : ~IsLabel(Split(rout, NL)[n])

\* C18 amended: the output is the body lines of the columns, in order, each
\* indented by four spaces (two for the column, two for the column_list),
\* and no line of it is a column label; when no column has a body line the
\* output is the label "Column List:" alone.
C18_ColumnComposition ==
    ColumnListRendered =>
        LET lines == ColumnLines(rblock)
        IN  IF lines = <<>> THEN rout = <<"Column List:">>
            ELSE /\ rout = Join(<<NL>>, [n \in 1..Len(lines) |->
                                            <<"  ", "  ">> \o lines[n]])
                 /\ \A n \in 1..Len(Split(rout, NL)) :
                       ~IsLabel(Split(rout, NL)[n])

\* C18 witness: two columns, a paragraph in the first, a paragraph and a
\* toggle with a nested paragraph in the second
C18_Witness ==
    /\ rdone
    /\ rblock = ColumnListInput(<<"para", "para+toggle">>, FALSE)
    /\ rout = <<"  ", "  ", "text", NL, "  ", "  ", "text", NL,
                "  ", "  ", "Toggle: ", "more", NL,
                "  ", "  ", "  ", "inner">>


\* the column blocks with has_children under the returned column_list
\* blocks, after the per-column pass
ReturnedColumns ==
    UNION {LET children == Get(returned[p[1]][p[2]], "children", <<>>)
           IN  {children[k] : k \in {k \in 1..Len(children) :
                    /\ Get(children[k], "type", "") = "column"
                    /\ Get(children[k], "has_children", FALSE)}} :
           p \in {q \in ReturnedBlocks :
                    Get(returned[q[1]][q[2]], "type", "") = "column_list"}}

\* C19: the children attached to a column under a column_list are the
\* children its one walk returned, each once: all the listed children of the
\* column, in listing order, when no request failed.
C19_ColumnsNotDuplicated ==
    \A column \in ReturnedColumns :
        /\ column["id"] \in DOMAIN returned
        /\ Get(column, "children", <<>>) = returned[column["id"]]
        /\ failures = 0 =>
              ListedSeq(Get(column, "children", <<>>)) =
                  ListingPrefix(column["id"], ListingLength(column["id"]))

\* C19 witness: the walk of P4 returned: column C1, walked inside the walk
\* of the column_list and met again by the per-column pass, holds its one
\* listed child once
C19_Witness ==
    /\ store = "cols" /\ failures = 0
    /\ "P4" \in DOMAIN returned
    /\ LET column == returned["P4"][1]["children"][1]
       IN  /\ column["id"] = "C1"
           /\ Len(column["children"]) = 1
           /\ column["children"][1]["id"] = "c1a"


\* the ids of the synced originals the returned blocks name: the target of
\* a reference, the own id of an original
SyncedTargets ==
    {FetchTarget(returned[p[1]][p[2]]) :
        p \in {q \in ReturnedBlocks :
                 /\ Get(returned[q[1]][q[2]], "type", "") = "synced_block"
                 /\ Get(returned[q[1]][q[2]], "has_children", FALSE)}}

\* the returned synced blocks (original or reference) of one original that
\* carry attached children
Carriers(original) ==
    {p \in ReturnedBlocks :
        LET block == returned[p[1]][p[2]]
        IN  /\ Get(block, "type", "") = "synced_block"
            /\ Get(block, "has_children", FALSE)
            /\ FetchTarget(block) = original
            /\ Get(block, "children", <<>>) # <<>>}

\* C20: within one root fetch at most one block, the original or one of the
\* references to it, carries the children of a synced original; every other
\* one ends the fetch with no attached children.
C20_SingleCarrier ==
    \A original \in SyncedTargets : Cardinality(Carriers(original)) <= 1

\* C20 witness: the walk of R returned; the reference rq, listed before the
\* original Q, carries Q's children, the original and the later reference
\* rq2 carry none
C20_Witness ==
    /\ store = "refs"
    /\ "R" \in DOMAIN returned /\ "Q" \in DOMAIN returned
    /\ returned["Q"] # <<>>
    /\ returned["R"][1]["children"] = returned["Q"]
    /\ Get(returned["R"][2], "children", <<>>) = <<>>
    /\ "children" \notin DOMAIN returned["R"][3]

=============================================================================
